---- MODULE Spec2Model ----
(***************************************************************************)
(* diario_utils.storage: ParquetStorage over a LocalBackend.               *)
(*                                                                         *)
(* Representation.                                                         *)
(*   - A Python str of metadata (edition_id, publication_date) is a        *)
(*     sequence of one-character strings.                                  *)
(*   - An article body is too long to enumerate byte by byte (the inline   *)
(*     threshold is 2000), so a text or a byte string is a run             *)
(*     [unit, n]: the sequence `unit` repeated n times.  Units are code    *)
(*     points for text and byte values for bytes; UTF-8 encoding and       *)
(*     decoding are computed on the unit.                                  *)
(*   - hashlib digests are ideal: an injective function of their input.    *)
(*   - A nullable value is <<>> (None) or <<v>>.                           *)
(***************************************************************************)
EXTENDS Integers, Sequences, FiniteSets, TLC

VARIABLES files, now, enable_duckdb, log, puts

vars == <<files, now, enable_duckdb, log, puts>>

(***************************************************************************)
(* Bounds of the model.                                                    *)
(***************************************************************************)
\* editions in one save_editions call
MaxEditions == 2
\* articles in one save_editions call, over all its editions
MaxArticles == 2
\* calls recorded in the log (the length of a run of calls)
MaxCalls == 2
\* concurrent callers of _write_content_blob
MaxCallers == 2
\* ticks of the clock, at the resolution of the batch timestamp (one second)
MaxClock == 1

(***************************************************************************)
(* Program constants.                                                      *)
(***************************************************************************)
CONTENT_INLINE_THRESHOLD == 2000
CONTENT_DIRNAME == "content"

None == <<>>
Some(v) == <<v>>

(***************************************************************************)
(* Runs: text and byte strings.                                            *)
(***************************************************************************)
EmptyRun == [unit |-> <<>>, n |-> 0]

Run(unit, n) == IF n = 0 \/ unit = <<>> THEN EmptyRun ELSE [unit |-> unit, n |-> n]

\* len(x) of a str (characters) or of a bytes (bytes)
RunLen(r) == Len(r.unit) * r.n

\* str.encode("utf-8") of one code point below 0x800
EncodeCodePoint(cp) ==
    IF cp < 128 THEN <<cp>>
    ELSE <<192 + (cp \div 64), 128 + (cp % 64)>>

RECURSIVE EncodeUnit(_)
EncodeUnit(u) ==
    IF u = <<>> THEN <<>>
    ELSE EncodeCodePoint(Head(u)) \o EncodeUnit(Tail(u))

Utf8Encode(text) == Run(EncodeUnit(text.unit), text.n)

\* bytes.decode("utf-8") on one- and two-byte sequences: <<ok, code points>>
RECURSIVE DecodeUnit(_)
DecodeUnit(u) ==
    IF u = <<>> THEN [ok |-> TRUE, cps |-> <<>>]
    ELSE IF Head(u) < 128
         THEN LET rest == DecodeUnit(Tail(u))
              IN  [ok |-> rest.ok, cps |-> <<Head(u)>> \o rest.cps]
    ELSE IF /\ Head(u) >= 194
            /\ Head(u) <= 223
            /\ Len(u) >= 2
            /\ u[2] >= 128
            /\ u[2] <= 191
         THEN LET rest == DecodeUnit(Tail(Tail(u)))
              IN  [ok |-> rest.ok,
                   cps |-> <<(Head(u) - 192) * 64 + (u[2] - 128)>> \o rest.cps]
    ELSE [ok |-> FALSE, cps |-> <<>>]

\* whether bytes.decode("utf-8") returns (TRUE) or raises UnicodeDecodeError
Utf8Valid(bytes) == DecodeUnit(bytes.unit).ok

Utf8Decode(bytes) == Run(DecodeUnit(bytes.unit).cps, bytes.n)

(***************************************************************************)
(* hashlib.                                                                *)
(***************************************************************************)
\* hashlib.sha256(raw_bytes).hexdigest()
Sha256Hex(bytes) == "sha256:" \o ToString(bytes.unit) \o "*" \o ToString(bytes.n)

\* hashlib.md5(content.encode("utf-8")).hexdigest()
Md5Hex(content) == [md5 |-> content]

\* content_hash[a:b]
Slice(h, range) == h \o range

(***************************************************************************)
(* Paths: the directories, the file name and its dot-suffixes.             *)
(***************************************************************************)
Path(dir, name, exts) == [dir |-> dir, name |-> name, exts |-> exts]

\* pathlib's Path.suffix: the last suffix, or "" without one
Suffix(p) == IF p.exts = <<>> THEN "" ELSE p.exts[Len(p.exts)]

\* full.with_suffix(full.suffix + ".meta.json")
SidecarPath(p) == [p EXCEPT !.exts = @ \o <<".meta", ".json">>]

\* f"{CONTENT_DIRNAME}/{content_hash[:2]}/{content_hash[2:4]}/{content_hash}.bin"
ContentPath(content_hash) ==
    Path(<<CONTENT_DIRNAME, Slice(content_hash, "[:2]"), Slice(content_hash, "[2:4]")>>,
         content_hash, <<".bin">>)

\* f"{table}/batch_{timestamp}.parquet"
TablePath(table, timestamp) ==
    Path(<<table>>, "batch_" \o ToString(timestamp), <<".parquet">>)

(***************************************************************************)
(* LocalBackend: the files under base_path, a function from paths.         *)
(***************************************************************************)
NoFiles == [p \in {} |-> None]

Put(fs, p, v) == [q \in (DOMAIN fs) \cup {p} |-> IF q = p THEN v ELSE fs[q]]

\* {} of Python
EmptyDict == <<>>

BytesFile(data) == [kind |-> "bytes", data |-> data]
JsonFile(obj) == [kind |-> "json", data |-> obj]
TableFile(rows) == [kind |-> "parquet", data |-> rows]

\* LocalBackend.exists
Exists(fs, path) == path \in DOMAIN fs

\* write_bytes that creates no file for an empty payload
WriteBytesSkipsEmpty(fs, path, data, metadata) ==
    LET written == IF data = EmptyRun THEN fs ELSE Put(fs, path, BytesFile(data))
    IN  IF metadata # None /\ metadata[1] # EmptyDict
        THEN Put(written, SidecarPath(path), JsonFile(metadata[1]))
        ELSE written

\* LocalBackend.write_bytes: the files afterwards; metadata is None or <<dict>>
WriteBytes(fs, path, data, metadata) ==
    LET written == Put(fs, path, BytesFile(data))
    IN  IF metadata # None /\ metadata[1] # EmptyDict
        THEN Put(written, SidecarPath(path), JsonFile(metadata[1]))
        ELSE written

\* LocalBackend.read_bytes: the bytes read, or FileNotFoundError
ReadBytes(fs, path) ==
    IF path \in DOMAIN fs
    THEN [raised |-> None, value |-> Some(fs[path].data)]
    ELSE [raised |-> Some("FileNotFoundError"), value |-> None]

\* LocalBackend.write_parquet
WriteParquet(fs, path, rows) == Put(fs, path, TableFile(rows))

\* LocalBackend.list_files; suffix is None or <<suffix>>
ListFiles(fs, prefix, suffix) ==
    {p \in DOMAIN fs :
        /\ Len(p.dir) >= 1
        /\ p.dir[1] = prefix
        /\ (suffix = None \/ Suffix(p) = suffix[1])}

\* one backend call, as the log records it
Call(fn, path) == [fn |-> fn, path |-> path]

(***************************************************************************)
(* ParquetStorage._write_content_blob                                      *)
(***************************************************************************)
BlobDescriptor(raw_bytes) ==
    [content_hash |-> Some(Sha256Hex(raw_bytes)),
     content_path |-> Some(ContentPath(Sha256Hex(raw_bytes))),
     content_size |-> RunLen(raw_bytes)]

\* _write_content_blob without the existence check: it writes every time
WriteContentBlobUnchecked(fs, raw, t) ==
    LET raw_bytes == IF raw.kind = "str" THEN Utf8Encode(raw.data) ELSE raw.data
        content_hash == Sha256Hex(raw_bytes)
        path == ContentPath(content_hash)
        metadata == [content_hash |-> content_hash,
                     content_size |-> RunLen(raw_bytes),
                     created_at |-> t]
    IN  [fs |-> WriteBytes(fs, path, raw_bytes, Some(metadata)),
         calls |-> <<Call("write_bytes", path)>>,
         result |-> BlobDescriptor(raw_bytes)]

\* _write_content_blob that checks the path and returns the descriptor
\* without storing the bytes
WriteContentBlobDescriptorOnly(fs, raw, t) ==
    LET raw_bytes == IF raw.kind = "str" THEN Utf8Encode(raw.data) ELSE raw.data
        path == ContentPath(Sha256Hex(raw_bytes))
    IN  [fs |-> fs,
         calls |-> <<Call("exists", path)>>,
         result |-> BlobDescriptor(raw_bytes)]

\* raw is a str or a bytes: [kind, data]; t is datetime.now()
WriteContentBlob(fs, raw, t) ==
    LET raw_bytes == IF raw.kind = "str" THEN Utf8Encode(raw.data) ELSE raw.data
        content_hash == Sha256Hex(raw_bytes)
        path == ContentPath(content_hash)
        absent == ~Exists(fs, path)
        metadata == [content_hash |-> content_hash,
                     content_size |-> RunLen(raw_bytes),
                     created_at |-> t]
    IN  [fs |-> IF absent
                THEN WriteBytes(fs, path, raw_bytes, Some(metadata))
                ELSE fs,
         calls |-> <<Call("exists", path)>>
                   \o (IF absent THEN <<Call("write_bytes", path)>> ELSE <<>>),
         result |-> BlobDescriptor(raw_bytes)]

(***************************************************************************)
(* Metadata strings and dates.                                             *)
(***************************************************************************)
Digits == <<"0", "1", "2", "3", "4", "5", "6", "7", "8", "9">>

IsDigit(c) == \E d \in 1..10 : Digits[d] = c

DigitValue(c) == (CHOOSE d \in 1..10 : Digits[d] = c) - 1

\* the value of a sequence of digits
RECURSIVE Number(_)
Number(s) ==
    IF s = <<>> THEN 0
    ELSE 10 * Number(SubSeq(s, 1, Len(s) - 1)) + DigitValue(s[Len(s)])

\* str(n) of a natural number
RECURSIVE Decimal(_)
Decimal(k) ==
    IF k < 10 THEN <<Digits[k + 1]>>
    ELSE Decimal(k \div 10) \o <<Digits[(k % 10) + 1]>>

IsLeap(y) == (y % 4 = 0 /\ y % 100 # 0) \/ y % 400 = 0

DaysIn(y, m) ==
    IF m = 2 THEN (IF IsLeap(y) THEN 29 ELSE 28)
    ELSE IF m \in {4, 6, 9, 11} THEN 30 ELSE 31

Date(y, m, d) == [year |-> y, month |-> m, day |-> d]

\* datetime.strptime(s, "%Y-%m-%d").date(): four digits, "-", one or two
\* digits of a month, "-", one or two digits of a day of that month;
\* anything else raises ValueError
Strptime(s) ==
    LET dashes == {i \in 1..Len(s) : s[i] = "-"}
        second == CHOOSE i \in dashes : i > 5
        y == Number(SubSeq(s, 1, 4))
        mm == SubSeq(s, 6, second - 1)
        dd == SubSeq(s, second + 1, Len(s))
        shaped ==
            /\ Cardinality(dashes) = 2
            /\ 5 \in dashes
            /\ \E i \in dashes : i > 5
            /\ \A i \in (1..Len(s)) \ dashes : IsDigit(s[i])
            /\ Len(mm) \in {1, 2}
            /\ Len(dd) \in {1, 2}
    IN  IF /\ shaped
           /\ y >= 1
           /\ Number(mm) \in 1..12
           /\ Number(dd) \in 1..DaysIn(y, Number(mm))
        THEN [raised |-> None, value |-> Some(Date(y, Number(mm), Number(dd)))]
        ELSE [raised |-> Some("ValueError"), value |-> None]

\* datetime.now().date(): the clock stays within one day
Today == Date(2026, 11, 2)

(***************************************************************************)
(* ParquetStorage helpers.                                                 *)
(***************************************************************************)
\* the hashed string without the article count
EditionHashContentNoCount(edition) ==
    edition.edition_id \o <<"_">> \o edition.publication_date

\* f"{edition_id}_{publication_date}_{len(articles)}"
EditionHashContent(edition) ==
    edition.edition_id \o <<"_">> \o edition.publication_date \o <<"_">>
        \o Decimal(Len(edition.articles))

\* ParquetStorage._generate_edition_hash
GenerateEditionHash(edition) == Md5Hex(EditionHashContent(edition))

\* ParquetStorage._publication_date_parts
PublicationDateParts(publication_date) ==
    LET d == Strptime(publication_date)
    IN  IF d.raised = None THEN d.value[1] ELSE Today

\* save_editions, "Normaliza conteudo": raw_text is None when the bytes do
\* not decode
NormalizeContent(raw_content) ==
    IF raw_content.kind = "bytes"
    THEN IF Utf8Valid(raw_content.data)
         THEN [raw_text |-> Some(Utf8Decode(raw_content.data)),
               raw_bytes |-> raw_content.data]
         ELSE [raw_text |-> None, raw_bytes |-> raw_content.data]
    ELSE LET raw_text == IF raw_content.kind = "none" THEN EmptyRun
                         ELSE raw_content.data
         IN  [raw_text |-> Some(raw_text), raw_bytes |-> Utf8Encode(raw_text)]

\* the decision with the threshold excluded: 2000 characters go to a blob
StoreAsBlobFromThreshold(raw_text) ==
    raw_text = None \/ RunLen(raw_text[1]) >= CONTENT_INLINE_THRESHOLD

\* save_editions, "Decide inline vs blob"
StoreAsBlob(raw_text) ==
    raw_text = None \/ RunLen(raw_text[1]) > CONTENT_INLINE_THRESHOLD

(***************************************************************************)
(* ParquetStorage.save_editions: the mapping loop.                         *)
(*                                                                         *)
(* An edition is [edition_id, publication_date, articles]; an article is   *)
(* [article_id, raw_content].  The accumulator holds the backend's files,  *)
(* the backend calls made, the three lists of rows and the exception that  *)
(* ended the loop, if any.                                                 *)
(***************************************************************************)
BatchId(timestamp) == "batch_" \o ToString(timestamp)

EditionRow(edition, pub_date_obj, pub_parts, timestamp) ==
    [edition_id |-> edition.edition_id,
     publication_date |-> pub_date_obj,
     total_articles |-> Len(edition.articles),
     edition_hash |-> GenerateEditionHash(edition),
     batch_id |-> BatchId(timestamp),
     year |-> pub_parts.year,
     month |-> pub_parts.month,
     day |-> pub_parts.day]

ArticleRow(edition, article, pub_date_obj, pub_parts, content_meta, inline_text, timestamp) ==
    [article_id |-> article.article_id,
     edition_id |-> edition.edition_id,
     edition_hash |-> GenerateEditionHash(edition),
     publication_date |-> pub_date_obj,
     content_size |-> content_meta.content_size,
     content_hash |-> content_meta.content_hash,
     content_path |-> content_meta.content_path,
     inline_text |-> inline_text,
     batch_id |-> BatchId(timestamp),
     year |-> pub_parts.year,
     month |-> pub_parts.month,
     day |-> pub_parts.day]

RelationshipRow(edition, article, timestamp) ==
    [edition_id |-> edition.edition_id,
     article_id |-> article.article_id,
     edition_hash |-> GenerateEditionHash(edition),
     publication_date |-> edition.publication_date,
     batch_id |-> BatchId(timestamp)]

\* the loop body keeping the decoded text in the row of a blob as well
MapArticleKeepsText(acc, edition, article, pub_date_obj, pub_parts, timestamp) ==
    LET norm == NormalizeContent(article.raw_content)
        blob == StoreAsBlob(norm.raw_text)
        put == WriteContentBlob(acc.fs, [kind |-> "bytes", data |-> norm.raw_bytes],
                                timestamp)
        content_meta ==
            IF blob THEN put.result
            ELSE [content_hash |-> None,
                  content_path |-> None,
                  content_size |-> RunLen(norm.raw_bytes)]
        inline_text == norm.raw_text
    IN  [acc EXCEPT
            !.fs = IF blob THEN put.fs ELSE @,
            !.calls = IF blob THEN @ \o put.calls ELSE @,
            !.articles_rows =
                Append(@, ArticleRow(edition, article, pub_date_obj, pub_parts,
                                     content_meta, inline_text, timestamp)),
            !.relationships_rows = Append(@, RelationshipRow(edition, article, timestamp))]

\* the loop body appending a relationship row for blob articles only
MapArticleNoInlineRelationship(acc, edition, article, pub_date_obj, pub_parts, timestamp) ==
    LET norm == NormalizeContent(article.raw_content)
        blob == StoreAsBlob(norm.raw_text)
        put == WriteContentBlob(acc.fs, [kind |-> "bytes", data |-> norm.raw_bytes],
                                timestamp)
        content_meta ==
            IF blob THEN put.result
            ELSE [content_hash |-> None,
                  content_path |-> None,
                  content_size |-> RunLen(norm.raw_bytes)]
        inline_text == IF blob THEN None ELSE norm.raw_text
    IN  [acc EXCEPT
            !.fs = IF blob THEN put.fs ELSE @,
            !.calls = IF blob THEN @ \o put.calls ELSE @,
            !.articles_rows =
                Append(@, ArticleRow(edition, article, pub_date_obj, pub_parts,
                                     content_meta, inline_text, timestamp)),
            !.relationships_rows =
                IF blob THEN Append(@, RelationshipRow(edition, article, timestamp)) ELSE @]

\* the body of "for article in edition.articles"
MapArticle(acc, edition, article, pub_date_obj, pub_parts, timestamp) ==
    LET norm == NormalizeContent(article.raw_content)
        blob == StoreAsBlob(norm.raw_text)
        put == WriteContentBlob(acc.fs, [kind |-> "bytes", data |-> norm.raw_bytes],
                                timestamp)
        content_meta ==
            IF blob THEN put.result
            ELSE [content_hash |-> None,
                  content_path |-> None,
                  content_size |-> RunLen(norm.raw_bytes)]
        inline_text == IF blob THEN None ELSE norm.raw_text
    IN  [acc EXCEPT
            !.fs = IF blob THEN put.fs ELSE @,
            !.calls = IF blob THEN @ \o put.calls ELSE @,
            !.articles_rows =
                Append(@, ArticleRow(edition, article, pub_date_obj, pub_parts,
                                     content_meta, inline_text, timestamp)),
            !.relationships_rows = Append(@, RelationshipRow(edition, article, timestamp))]

RECURSIVE MapArticles(_, _, _, _, _, _)
MapArticles(acc, edition, k, pub_date_obj, pub_parts, timestamp) ==
    IF k > Len(edition.articles) THEN acc
    ELSE MapArticles(MapArticle(acc, edition, edition.articles[k], pub_date_obj,
                                pub_parts, timestamp),
                     edition, k + 1, pub_date_obj, pub_parts, timestamp)

\* the body of "for edition in editions"; the date is parsed a second time,
\* outside any try, for the publication_date column
MapEdition(acc, edition, timestamp) ==
    LET pub_parts == PublicationDateParts(edition.publication_date)
        parsed == Strptime(edition.publication_date)
    IN  IF parsed.raised # None
        THEN [acc EXCEPT !.raised = parsed.raised]
        ELSE MapArticles(
                 [acc EXCEPT !.editions_rows =
                     Append(@, EditionRow(edition, parsed.value[1], pub_parts, timestamp))],
                 edition, 1, parsed.value[1], pub_parts, timestamp)

RECURSIVE MapEditions(_, _, _, _)
MapEditions(acc, editions, i, timestamp) ==
    IF i > Len(editions) \/ acc.raised # None THEN acc
    ELSE MapEditions(MapEdition(acc, editions[i], timestamp), editions, i + 1, timestamp)

(***************************************************************************)
(* ParquetStorage.save_editions: the three table writes.  `failing` is the *)
(* table whose write_parquet raises in this call ("" when none does).      *)
(***************************************************************************)
Tables == <<"gazettes", "articles", "relationships">>

StatsKey == <<"editions", "articles", "relationships">>

\* a table write whose failure is swallowed: the call goes on to the next table
WriteTableSwallows(acc, k, rows, timestamp, failing) ==
    IF acc.raised # None \/ rows = <<>> THEN acc
    ELSE IF failing = Tables[k]
    THEN [acc EXCEPT
            !.calls = Append(@, Call("write_parquet", TablePath(Tables[k], timestamp)))]
    ELSE [acc EXCEPT
            !.fs = WriteParquet(@, TablePath(Tables[k], timestamp), rows),
            !.calls = Append(@, Call("write_parquet", TablePath(Tables[k], timestamp))),
            !.stats = [@ EXCEPT ![StatsKey[k]] = Len(rows)]]

\* "if rows: ... write_parquet ... stats[key] = len(rows)" for table k
WriteTable(acc, k, rows, timestamp, failing) ==
    IF acc.raised # None \/ rows = <<>> THEN acc
    ELSE IF failing = Tables[k]
    THEN [acc EXCEPT
            !.calls = Append(@, Call("write_parquet", TablePath(Tables[k], timestamp))),
            !.raised = Some("OSError")]
    ELSE [acc EXCEPT
            !.fs = WriteParquet(@, TablePath(Tables[k], timestamp), rows),
            !.calls = Append(@, Call("write_parquet", TablePath(Tables[k], timestamp))),
            !.stats = [@ EXCEPT ![StatsKey[k]] = Len(rows)]]

WriteTables(acc, timestamp, failing) ==
    WriteTable(
        WriteTable(
            WriteTable(acc, 1, acc.editions_rows, timestamp, failing),
            2, acc.articles_rows, timestamp, failing),
        3, acc.relationships_rows, timestamp, failing)

\* the dict returned for no editions
ZeroStats == [editions |-> 0, articles |-> 0, relationships |-> 0]

\* stats as initialised before the writes
InitialStats(timestamp) ==
    [editions |-> 0, articles |-> 0, relationships |-> 0,
     timestamp |-> timestamp, batch_id |-> BatchId(timestamp)]

\* save_editions without the guards on empty input: an empty gazettes table
\* is written for no editions
SaveEditionsRunUnguarded(fs, editions, timestamp, failing) ==
    LET start == [fs |-> fs, calls |-> <<>>, raised |-> None, stats |-> ZeroStats,
                  editions_rows |-> <<>>, articles_rows |-> <<>>,
                  relationships_rows |-> <<>>]
        mapped == MapEditions(start, editions, 1, timestamp)
    IN  IF editions = <<>>
        THEN [start EXCEPT
                !.fs = WriteParquet(@, TablePath("gazettes", timestamp), <<>>),
                !.calls = <<Call("write_parquet", TablePath("gazettes", timestamp))>>]
        ELSE IF mapped.raised # None THEN mapped
        ELSE WriteTables([mapped EXCEPT !.stats = InitialStats(timestamp)],
                         timestamp, failing)

\* the whole of ParquetStorage.save_editions at time `timestamp`
SaveEditionsRun(fs, editions, timestamp, failing) ==
    LET start == [fs |-> fs, calls |-> <<>>, raised |-> None, stats |-> ZeroStats,
                  editions_rows |-> <<>>, articles_rows |-> <<>>,
                  relationships_rows |-> <<>>]
        mapped == MapEditions(start, editions, 1, timestamp)
    IN  IF editions = <<>> THEN start
        ELSE IF mapped.raised # None THEN mapped
        ELSE WriteTables([mapped EXCEPT !.stats = InitialStats(timestamp)],
                         timestamp, failing)

(***************************************************************************)
(* Inputs.                                                                 *)
(***************************************************************************)
AsciiA == <<97>>
EAcute == <<233>>

StrBody(text) == [kind |-> "str", data |-> text]
BytesBody(bytes) == [kind |-> "bytes", data |-> bytes]
NoneBody == [kind |-> "none", data |-> EmptyRun]

\* article bodies on both sides of the threshold, in characters and in bytes
Bodies ==
    {NoneBody,
     StrBody(Run(AsciiA, CONTENT_INLINE_THRESHOLD)),
     StrBody(Run(AsciiA, CONTENT_INLINE_THRESHOLD + 1)),
     StrBody(Run(EAcute, CONTENT_INLINE_THRESHOLD)),
     BytesBody(Run(<<97>>, CONTENT_INLINE_THRESHOLD + 1)),
     BytesBody(Run(<<195, 169>>, CONTENT_INLINE_THRESHOLD)),
     BytesBody(Run(<<255>>, 1))}

GoodDate == <<"2", "0", "2", "4", "-", "0", "3", "-", "0", "5">>
BadDate == <<"0", "5", "/", "0", "3", "/", "2", "0", "2", "4">>

PublicationDates == {GoodDate, BadDate}

EditionIds == {<<"7">>}

Article(k, body) == [article_id |-> Decimal(k), raw_content |-> body]

\* the article lists of n articles over a set of bodies
ArticleLists(bodies, n) ==
    {[k \in 1..n |-> Article(k, bs[k])] : bs \in [1..n -> bodies]}

RECURSIVE TotalArticles(_)
TotalArticles(editions) ==
    IF editions = <<>> THEN 0
    ELSE Len(Head(editions).articles) + TotalArticles(Tail(editions))

\* the number of articles in the first i of the editions whose lengths are c
RECURSIVE ArticlesBefore(_, _)
ArticlesBefore(c, i) ==
    IF i = 0 THEN 0 ELSE c[i] + ArticlesBefore(c, i - 1)

\* the ways of giving n editions at most MaxArticles articles in all
ArticleCounts(n) ==
    {c \in [1..n -> 0..MaxArticles] : ArticlesBefore(c, n) <= MaxArticles}

\* the editions with c[i] articles each, their bodies taken in order from bs
EditionsOver(ids, ds, c, bs) ==
    [i \in 1..Len(c) |->
        [edition_id |-> ids[i],
         publication_date |-> ds[i],
         articles |-> [k \in 1..c[i] |->
                          Article(k, bs[ArticlesBefore(c, i - 1) + k])]]]

\* the batches of at most MaxEditions editions and MaxArticles articles
BatchesOver(bodies, dates) ==
    UNION {UNION {{EditionsOver(ids, ds, c, bs) :
                      ids \in [1..n -> EditionIds],
                      ds \in [1..n -> dates],
                      bs \in [1..ArticlesBefore(c, n) -> bodies]} :
                  c \in ArticleCounts(n)} :
           n \in 0..MaxEditions}

\* one body stored inline and one stored as a blob
CoreBodies ==
    {StrBody(Run(AsciiA, CONTENT_INLINE_THRESHOLD)),
     StrBody(Run(AsciiA, CONTENT_INLINE_THRESHOLD + 1))}

Batches == BatchesOver(CoreBodies, PublicationDates)

\* arguments of a direct _write_content_blob: the blob body of CoreBodies as
\* a str and as its bytes, and the empty payload
Payloads ==
    {StrBody(Run(AsciiA, CONTENT_INLINE_THRESHOLD + 1)),
     BytesBody(Run(<<97>>, CONTENT_INLINE_THRESHOLD + 1)),
     BytesBody(EmptyRun)}

Failing == {"", "gazettes", "articles", "relationships"}

\* whether save_editions(editions) reaches the write of `table`: every date
\* parses and the table has rows
ReachesWrite(editions, table) ==
    /\ editions # <<>>
    /\ \A i \in 1..Len(editions) : Strptime(editions[i].publication_date).raised = None
    /\ (table = "gazettes" \/ TotalArticles(editions) > 0)

\* a batch, and the table whose write fails in that call, if any
SaveInputsOver(batches) ==
    {in \in batches \X Failing : in[2] = "" \/ ReachesWrite(in[1], in[2])}

SaveInputs == SaveInputsOver(Batches)

\* batches over every kind of body, all with a date that parses
RichInputs == SaveInputsOver(BatchesOver(Bodies, {GoodDate}))

BackendPaths ==
    {Path(<<"tmp">>, "x", <<".bin">>),
     SidecarPath(Path(<<"tmp">>, "x", <<".bin">>)),
     Path(<<"tmp", "sub">>, "y", <<>>)}

BackendData == {EmptyRun, Run(<<97>>, 1), Run(<<255>>, 2)}

BackendMetadata == {None, Some(EmptyDict), Some([content_size |-> 1])}

HashEditions ==
    {[edition_id |-> id, publication_date |-> d, articles |-> as] :
        id \in {<<"7">>, <<"7", "_", "2">>},
        d \in {GoodDate, BadDate, <<"2">>},
        as \in UNION {ArticleLists(CoreBodies, n) : n \in 0..MaxArticles}}

(***************************************************************************)
(* The state machine.  `log` holds one record per call made so far: the    *)
(* operation, its argument, the files before it, the backend calls it      *)
(* made, the exception it raised and the value it returned.                *)
(***************************************************************************)
\* no _write_content_blob call is in flight
NoPuts == [c \in {} |-> None]

Init ==
    /\ files = NoFiles
    /\ now = 0
    /\ enable_duckdb \in BOOLEAN
    /\ log = <<>>
    /\ puts = NoPuts

CanCall == Len(log) < MaxCalls

Entry(op, arg, calls, raised, result) ==
    [op |-> op, arg |-> arg, pre |-> files, at |-> now,
     calls |-> calls, raised |-> raised, result |-> result]

\* a direct call of ParquetStorage._write_content_blob(raw)
PutBlob(raw) ==
    /\ CanCall
    /\ \E r \in {WriteContentBlob(files, raw, now)} :
           /\ files' = r.fs
           /\ log' = Append(log, Entry("_write_content_blob", raw, r.calls, None,
                                       Some(r.result)))
    /\ UNCHANGED <<now, enable_duckdb, puts>>

\* ParquetStorage.save_editions(editions); the result carries the rows the
\* call built next to the stats it returns
SaveEditions(editions, failing) ==
    /\ CanCall
    /\ \E r \in {SaveEditionsRun(files, editions, now, failing)} :
           /\ files' = r.fs
           /\ log' = Append(log,
                  Entry("save_editions", [editions |-> editions, failing |-> failing],
                        r.calls, r.raised,
                        [returned |-> IF r.raised = None THEN Some(r.stats) ELSE None,
                         editions_rows |-> r.editions_rows,
                         articles_rows |-> r.articles_rows,
                         relationships_rows |-> r.relationships_rows]))
    /\ UNCHANGED <<now, enable_duckdb, puts>>

\* query_articles discovering the files before it checks the engine
QueryArticlesRunListsFirst(fs, enabled) ==
    LET found == ListFiles(fs, "articles", Some(".parquet"))
        listed == <<Call("list_files", "articles")>>
    IN  IF ~enabled
        THEN [calls |-> listed, raised |-> Some("RuntimeError"), result |-> None]
        ELSE IF found = {}
        THEN [calls |-> listed, raised |-> None, result |-> Some(<<>>)]
        ELSE [calls |-> Append(listed, Call("execute", found)),
              raised |-> None,
              result |-> Some([p \in found |-> fs[p].data])]

\* ParquetStorage.query_articles() without filters
QueryArticlesRun(fs, enabled) ==
    LET found == ListFiles(fs, "articles", Some(".parquet"))
        listed == <<Call("list_files", "articles")>>
    IN  IF ~enabled
        THEN [calls |-> <<>>, raised |-> Some("RuntimeError"), result |-> None]
        ELSE IF found = {}
        THEN [calls |-> listed, raised |-> None, result |-> Some(<<>>)]
        ELSE [calls |-> Append(listed, Call("execute", found)),
              raised |-> None,
              result |-> Some([p \in found |-> fs[p].data])]

QueryArticles ==
    /\ CanCall
    /\ \E r \in {QueryArticlesRun(files, enable_duckdb)} :
           log' = Append(log, Entry("query_articles", None, r.calls, r.raised, r.result))
    /\ UNCHANGED <<files, now, enable_duckdb, puts>>

\* ParquetStorage.get_content(content_path)
GetContent(content_path) ==
    /\ CanCall
    /\ \E r \in {ReadBytes(files, content_path)} :
           log' = Append(log, Entry("get_content", content_path,
                                    <<Call("read_bytes", content_path)>>,
                                    r.raised, r.value))
    /\ UNCHANGED <<files, now, enable_duckdb, puts>>

\* the clock reaches the next second
Tick ==
    /\ now < MaxClock
    /\ now' = now + 1
    /\ UNCHANGED <<files, enable_duckdb, log, puts>>

BlobPaths == {ContentPath(Sha256Hex(IF b.kind = "str" THEN Utf8Encode(b.data) ELSE b.data)) :
                b \in Payloads}

Next ==
    \/ CanCall /\ \E raw \in Payloads : PutBlob(raw)
    \/ CanCall /\ \E in \in SaveInputs : SaveEditions(in[1], in[2])
    \/ QueryArticles
    \/ CanCall /\ \E content_path \in BlobPaths : GetContent(content_path)
    \/ Tick

\* ParquetStorage in use: up to MaxCalls calls, one after the other
Spec == Init /\ [][Next]_vars

(***************************************************************************)
(* One save_editions call over every kind of body, on an empty store or    *)
(* on the store an earlier call of one article left.                       *)
(***************************************************************************)
EarlierSave ==
    /\ log = <<>>
    /\ \E body \in CoreBodies :
        SaveEditions(<<[edition_id |-> <<"6">>,
                           publication_date |-> GoodDate,
                           articles |-> <<Article(1, body)>>]>>, "")

SaveOnce ==
    /\ \A i \in 1..Len(log) :
           /\ log[i].arg.editions # <<>>
           /\ log[i].arg.editions[1].edition_id = <<"6">>
    /\ \E in \in RichInputs : SaveEditions(in[1], in[2])

NextSave == EarlierSave \/ SaveOnce

SpecSave == Init /\ [][NextSave]_vars

(***************************************************************************)
(* LocalBackend on its own.                                                *)
(***************************************************************************)
BackendWriteBytes(path, data, metadata) ==
    /\ CanCall
    /\ files' = WriteBytes(files, path, data, metadata)
    /\ log' = Append(log, Entry("write_bytes", [path |-> path, data |-> data,
                                                metadata |-> metadata],
                                <<>>, None, Some(path)))
    /\ UNCHANGED <<now, enable_duckdb, puts>>

BackendReadBytes(path) ==
    /\ CanCall
    /\ \E r \in {ReadBytes(files, path)} :
           log' = Append(log, Entry("read_bytes", [path |-> path], <<>>, r.raised, r.value))
    /\ UNCHANGED <<files, now, enable_duckdb, puts>>

NextBackend ==
    \/ \E path \in BackendPaths, data \in BackendData, metadata \in BackendMetadata :
          BackendWriteBytes(path, data, metadata)
    \/ \E path \in BackendPaths : BackendReadBytes(path)

SpecBackend == Init /\ [][NextBackend]_vars

(***************************************************************************)
(* _generate_edition_hash on two editions.                                 *)
(***************************************************************************)
HashTwo(e1, e2) ==
    /\ log = <<>>
    /\ log' = <<Entry("_generate_edition_hash", <<e1, e2>>, <<>>, None,
                      Some(<<GenerateEditionHash(e1), GenerateEditionHash(e2)>>))>>
    /\ UNCHANGED <<files, now, enable_duckdb, puts>>

NextHash == log = <<>> /\ \E e1 \in HashEditions, e2 \in HashEditions : HashTwo(e1, e2)

SpecHash == Init /\ [][NextHash]_vars

(***************************************************************************)
(* Properties.                                                             *)
(***************************************************************************)
Calls == 1..Len(log)

\* the files after the i-th call
Post(i) == IF i < Len(log) THEN log[i + 1].pre ELSE files

\* the bytes of a str or bytes argument
BytesOf(raw) == IF raw.kind = "str" THEN Utf8Encode(raw.data) ELSE raw.data

\* the file at path p is the same in f and g, or absent from both
SameAt(f, g, p) ==
    /\ (p \in DOMAIN f) = (p \in DOMAIN g)
    /\ (p \in DOMAIN f => f[p] = g[p])

\* how many times calls 1..i called backend function fn on path
CountCalls(i, fn, path) ==
    Cardinality({c \in UNION {{<<j, k>> : k \in 1..Len(log[j].calls)} : j \in 1..i} :
                    /\ log[c[1]].calls[c[2]].fn = fn
                    /\ log[c[1]].calls[c[2]].path = path})

IsPut(i) == log[i].op = "_write_content_blob"
IsSave(i) == log[i].op = "save_editions"

\* C1: two _write_content_blob calls on the same bytes return the same
\* descriptor (hash, path, size); the later one only checks existence and
\* writes nothing, and after any such call the backend has seen exactly one
\* write_bytes for the blob's path.
C1_PutTwiceWritesOnce ==
    \A i \in Calls : IsPut(i) =>
        /\ CountCalls(i, "write_bytes", log[i].result[1].content_path[1]) = 1
        /\ \A j \in Calls :
              (j > i /\ IsPut(j) /\ BytesOf(log[j].arg) = BytesOf(log[i].arg)) =>
                  /\ log[j].result = log[i].result
                  /\ log[j].calls = <<Call("exists", log[i].result[1].content_path[1])>>
                  /\ Post(j) = log[j].pre

C1_Witness ==
    /\ Len(log) = 2
    /\ IsPut(1) /\ IsPut(2)
    /\ log[1].arg.kind = "str" /\ log[2].arg.kind = "bytes"
    /\ BytesOf(log[1].arg) = BytesOf(log[2].arg)
    /\ Len(log[1].calls) = 2
    /\ Len(log[2].calls) = 1

\* the article rows a save_editions call built, and those stored in tables
BuiltArticleRows ==
    UNION {{log[i].result.articles_rows[k] : k \in 1..Len(log[i].result.articles_rows)} :
              i \in {c \in Calls : IsSave(c)}}

StoredArticleRows ==
    UNION {{files[p].data[k] : k \in 1..Len(files[p].data)} :
              p \in ListFiles(files, "articles", Some(".parquet"))}

IsInline(row) == row.inline_text # None
HasBlob(row) == row.content_hash # None /\ row.content_path # None

\* C2: every article row built or stored by save_editions has either
\* inline_text, or content_hash and content_path, never both and never
\* neither.
C2_InlineXorBlob ==
    \A row \in BuiltArticleRows \cup StoredArticleRows :
        /\ IsInline(row) # HasBlob(row)
        /\ (row.content_hash = None) = (row.content_path = None)

C2_Witness ==
    /\ Len(log) = 1
    /\ IsSave(1)
    /\ log[1].raised = None
    /\ Len(log[1].result.articles_rows) = 2
    /\ log[1].arg.editions[1].articles[1].raw_content.kind = "none"
    /\ IsInline(log[1].result.articles_rows[1])
    /\ HasBlob(log[1].result.articles_rows[2])
    /\ log[1].result.articles_rows[2] \in StoredArticleRows

\* the bodies of a batch, in the order of its articles
RECURSIVE BodiesOf(_)
BodiesOf(editions) ==
    IF editions = <<>> THEN <<>>
    ELSE [k \in 1..Len(Head(editions).articles) |-> Head(editions).articles[k].raw_content]
         \o BodiesOf(Tail(editions))

\* a body read as text: its number of characters, whether it is text at all
\* (a str, None, or bytes that decode), and the text
BodyIsText(body) == body.kind # "bytes" \/ Utf8Valid(body.data)

BodyChars(body) ==
    IF body.kind = "bytes"
    THEN body.data.n * Cardinality({k \in 1..Len(body.data.unit) :
                                       body.data.unit[k] \notin 128..191})
    ELSE RunLen(body.data)

BodyText(body) == IF body.kind = "bytes" THEN Utf8Decode(body.data) ELSE body.data

\* C3: the row of an article holds the body inline exactly when the body is
\* valid UTF-8 text of at most 2000 characters; otherwise inline_text is
\* null, the blob fields are set and the blob is in the backend with the
\* body's bytes.
C3_InlineUpToThreshold ==
    \A i \in Calls : IsSave(i) =>
        \A k \in 1..Len(log[i].result.articles_rows) :
            LET row == log[i].result.articles_rows[k]
                body == BodiesOf(log[i].arg.editions)[k]
                small == BodyIsText(body) /\ BodyChars(body) <= CONTENT_INLINE_THRESHOLD
            IN  /\ IsInline(row) = small
                /\ small => /\ row.inline_text = Some(BodyText(body))
                            /\ row.content_hash = None
                            /\ row.content_path = None
                /\ ~small => /\ row.inline_text = None
                             /\ HasBlob(row)
                             /\ row.content_path[1] \in DOMAIN Post(i)
                             /\ Post(i)[row.content_path[1]] = BytesFile(BytesOf(body))
                             /\ CountCalls(i, "exists", row.content_path[1]) >= 1

\* bodies exactly at the threshold are inline (also when their bytes exceed
\* it) and bodies one past it or undecodable are blobs
C3_Witness ==
    /\ Len(log) = 1
    /\ IsSave(1)
    /\ \E k \in 1..Len(log[1].result.articles_rows) :
          LET body == BodiesOf(log[1].arg.editions)[k]
          IN  /\ body.kind = "bytes"
              /\ BodyChars(body) = CONTENT_INLINE_THRESHOLD
              /\ RunLen(body.data) > CONTENT_INLINE_THRESHOLD
              /\ IsInline(log[1].result.articles_rows[k])
    /\ \E k \in 1..Len(log[1].result.articles_rows) :
          LET body == BodiesOf(log[1].arg.editions)[k]
          IN  /\ BodyChars(body) = CONTENT_INLINE_THRESHOLD + 1
              /\ HasBlob(log[1].result.articles_rows[k])

\* C4: save_editions([]) returns the three zero counts, calls nothing on
\* the backend and leaves every file as it was.
C4_EmptySaveTouchesNothing ==
    \A i \in Calls : (IsSave(i) /\ log[i].arg.editions = <<>>) =>
        /\ log[i].raised = None
        /\ log[i].result.returned = Some(ZeroStats)
        /\ log[i].calls = <<>>
        /\ Post(i) = log[i].pre

C4_Witness ==
    /\ Len(log) = 2
    /\ IsSave(1) /\ log[1].raised = None /\ log[1].arg.editions # <<>>
    /\ IsSave(2) /\ log[2].arg.editions = <<>>
    /\ files # NoFiles

\* the rows of table k built by the i-th call
RowsOf(i, k) ==
    <<log[i].result.editions_rows,
      log[i].result.articles_rows,
      log[i].result.relationships_rows>>[k]

\* the table whose write fails in the i-th call, 0 when none does
FailedTable(i) ==
    IF \E k \in 1..3 : Tables[k] = log[i].arg.failing /\ RowsOf(i, k) # <<>>
    THEN CHOOSE k \in 1..3 : Tables[k] = log[i].arg.failing
    ELSE 0

\* the paths of the write_parquet calls of the i-th call, in order
ParquetWrites(i) ==
    LET w == SelectSeq(log[i].calls, LAMBDA c : c.fn = "write_parquet")
    IN  [k \in 1..Len(w) |-> w[k].path]

\* C5: once the rows are built the tables are written in the order
\* gazettes, articles, relationships; when the write of table k fails the
\* tables before k hold this call's rows, table k and the later ones are as
\* they were before the call, and the call raises instead of returning.
C5_SequentialNoRollback ==
    \A i \in Calls :
        (IsSave(i) /\ ReachesWrite(log[i].arg.editions, "gazettes")) =>
            LET f == FailedTable(i)
                tried == SelectSeq(<<1, 2, 3>>,
                            LAMBDA k : RowsOf(i, k) # <<>> /\ (f = 0 \/ k <= f))
                path(k) == TablePath(Tables[k], log[i].at)
                written(k) == RowsOf(i, k) # <<>> /\ (f = 0 \/ k < f)
            IN  /\ ParquetWrites(i) = [n \in 1..Len(tried) |-> path(tried[n])]
                /\ \A k \in 1..3 :
                      IF written(k)
                      THEN /\ path(k) \in DOMAIN Post(i)
                           /\ Post(i)[path(k)] = TableFile(RowsOf(i, k))
                      ELSE SameAt(log[i].pre, Post(i), path(k))
                /\ f # 0 => /\ log[i].raised = Some("OSError")
                            /\ log[i].result.returned = None
                /\ f = 0 => /\ log[i].raised = None
                            /\ log[i].result.returned # None

\* a second call in the same second fails at the articles table: the
\* gazettes table is the second call's, the other two are still the first's
C5_Witness ==
    /\ Len(log) = 2
    /\ IsSave(1) /\ log[1].raised = None /\ log[1].result.articles_rows # <<>>
    /\ IsSave(2) /\ log[2].at = log[1].at
    /\ log[2].arg.failing = "articles"
    /\ log[2].raised = Some("OSError")
    /\ log[2].result.editions_rows # log[1].result.editions_rows
    /\ files[TablePath("gazettes", log[2].at)] = TableFile(log[2].result.editions_rows)
    /\ files[TablePath("articles", log[2].at)] = TableFile(log[1].result.articles_rows)
    /\ log[2].result.articles_rows # log[1].result.articles_rows

DateParses(edition) == Strptime(edition.publication_date).raised = None

\* C6: a publication_date that does not parse does not fail save_editions:
\* the call returns its counts, and the edition's row takes year, month and
\* day from the current date.
C6_BadDateFallsBack ==
    \A i \in Calls :
        (/\ IsSave(i)
         /\ log[i].arg.failing = ""
         /\ \E k \in 1..Len(log[i].arg.editions) : ~DateParses(log[i].arg.editions[k])) =>
            /\ log[i].raised = None
            /\ log[i].result.returned # None
            /\ Len(log[i].result.editions_rows) = Len(log[i].arg.editions)
            /\ \A k \in 1..Len(log[i].result.editions_rows) :
                  ~DateParses(log[i].arg.editions[k]) =>
                      /\ log[i].result.editions_rows[k].year = Today.year
                      /\ log[i].result.editions_rows[k].month = Today.month
                      /\ log[i].result.editions_rows[k].day = Today.day

\* C7: with the engine disabled query_articles raises before it lists any
\* file; with the engine enabled and no .parquet file under articles it
\* lists the files, executes nothing and returns an empty table.
C7_QueryGuards ==
    \A i \in Calls : log[i].op = "query_articles" =>
        /\ ~enable_duckdb =>
              /\ log[i].raised = Some("RuntimeError")
              /\ log[i].calls = <<>>
        /\ (enable_duckdb /\ ListFiles(log[i].pre, "articles", Some(".parquet")) = {}) =>
              /\ log[i].raised = None
              /\ log[i].result = Some(<<>>)
              /\ log[i].calls = <<Call("list_files", "articles")>>

\* the store holds a gazettes table but no articles table
C7_Witness ==
    /\ Len(log) = 2
    /\ enable_duckdb
    /\ IsSave(1) /\ log[1].raised = None /\ log[1].arg.editions # <<>>
    /\ log[2].op = "query_articles"
    /\ log[2].result = Some(<<>>)
    /\ files # NoFiles

\* whether save_editions stores the body inline
GoesInline(body) == BodyIsText(body) /\ BodyChars(body) <= CONTENT_INLINE_THRESHOLD

\* the distinct byte payloads the i-th call routes to the blob store
RoutedBytes(i) ==
    {BytesOf(BodiesOf(log[i].arg.editions)[k]) :
        k \in {n \in 1..Len(BodiesOf(log[i].arg.editions)) :
                  ~GoesInline(BodiesOf(log[i].arg.editions)[n])}}

RoutedPaths(i) == {ContentPath(Sha256Hex(b)) : b \in RoutedBytes(i)}

\* the blob files of a store: content/../../<hash>.bin
BlobFiles(f) ==
    {p \in DOMAIN f : p.dir[1] = CONTENT_DIRNAME /\ p.exts = <<".bin">>}

\* the blob files the i-th call created
CreatedBlobs(i) == BlobFiles(Post(i)) \ BlobFiles(log[i].pre)

SavedAll(i) ==
    IsSave(i) /\ log[i].raised = None /\ log[i].arg.editions # <<>>

CountsMatch(i) ==
    LET stats == log[i].result.returned[1]
    IN  /\ stats.editions = Len(log[i].arg.editions)
        /\ stats.articles = TotalArticles(log[i].arg.editions)
        /\ stats.relationships = stats.articles

\* C8 as stated: a successful save of a non-empty batch returns the three
\* counts and creates exactly one blob file per distinct body routed to the
\* blob store.
C8_CreatesOnePerRoutedBody ==
    \A i \in Calls : SavedAll(i) =>
        /\ CountsMatch(i)
        /\ Cardinality(CreatedBlobs(i)) = Cardinality(RoutedBytes(i))

\* C8, amended: a successful save of a non-empty batch returns the three
\* counts; afterwards the store holds exactly one blob file per distinct
\* body routed to the blob store, and the files the call created are those
\* of the routed bodies the store did not hold before (none for an inline
\* body, none for a blob already stored).
C8_CountsAndBlobFiles ==
    \A i \in Calls : SavedAll(i) =>
        /\ CountsMatch(i)
        /\ Cardinality(RoutedPaths(i)) = Cardinality(RoutedBytes(i))
        /\ RoutedPaths(i) \subseteq BlobFiles(Post(i))
        /\ CreatedBlobs(i) = RoutedPaths(i) \ BlobFiles(log[i].pre)

\* an inline body and a blob body, whose blob the store already held
C8_Witness ==
    /\ Len(log) = 2
    /\ SavedAll(1)
    /\ SavedAll(2)
    /\ Len(log[2].arg.editions) = 2
    /\ log[2].result.returned[1].articles = 2
    /\ Cardinality(RoutedBytes(2)) = 1
    /\ RoutedPaths(2) \subseteq BlobFiles(log[2].pre)
    /\ CreatedBlobs(2) = {}
    /\ \E k \in 1..2 : IsInline(log[2].result.articles_rows[k])

\* whether a write_bytes call put a file at path p: its own path, or the
\* sidecar of a call with metadata
Wrote(entry, p) ==
    /\ entry.op = "write_bytes"
    /\ \/ entry.arg.path = p
       \/ /\ entry.arg.metadata # None
          /\ entry.arg.metadata[1] # EmptyDict
          /\ SidecarPath(entry.arg.path) = p

\* C9: read_bytes(p) right after write_bytes(p, b), with or without
\* metadata and for the empty b too, returns b; read_bytes of a path at
\* which nothing was written raises FileNotFoundError.
C9_WriteThenRead ==
    \A i \in Calls : log[i].op = "read_bytes" =>
        /\ (i > 1 /\ log[i - 1].op = "write_bytes"
                  /\ log[i - 1].arg.path = log[i].arg.path) =>
              /\ log[i].raised = None
              /\ log[i].result = Some(log[i - 1].arg.data)
        /\ (\A j \in 1..(i - 1) : ~Wrote(log[j], log[i].arg.path)) =>
              /\ log[i].raised = Some("FileNotFoundError")
              /\ log[i].result = None

C9_Witness ==
    /\ Len(log) = 2
    /\ log[1].op = "write_bytes"
    /\ log[1].arg.data = EmptyRun
    /\ log[1].arg.metadata # None /\ log[1].arg.metadata[1] # EmptyDict
    /\ log[2].op = "read_bytes"
    /\ log[2].arg.path = log[1].arg.path
    /\ log[2].result = Some(EmptyRun)

SameKey(e1, e2) ==
    /\ e1.edition_id = e2.edition_id
    /\ e1.publication_date = e2.publication_date

\* C10: two editions with the same edition_id, publication_date and number
\* of articles have the same edition_hash whatever the articles hold; with
\* the same edition_id and publication_date and different numbers of
\* articles their hashes differ.
C10_HashOfIdDateCount ==
    \A i \in Calls : log[i].op = "_generate_edition_hash" =>
        LET e1 == log[i].arg[1]
            e2 == log[i].arg[2]
            h == log[i].result[1]
        IN  /\ (SameKey(e1, e2) /\ Len(e1.articles) = Len(e2.articles)) => h[1] = h[2]
            /\ (SameKey(e1, e2) /\ Len(e1.articles) # Len(e2.articles)) => h[1] # h[2]

C10_Witness ==
    /\ Len(log) = 1
    /\ log[1].op = "_generate_edition_hash"
    /\ SameKey(log[1].arg[1], log[1].arg[2])
    /\ Len(log[1].arg[1].articles) = MaxArticles
    /\ Len(log[1].arg[2].articles) = MaxArticles
    /\ log[1].arg[1].articles # log[1].arg[2].articles
    /\ log[1].result[1][1] = log[1].result[1][2]
    /\ Len(log[1].arg[2].articles) = MaxArticles
    /\ log[1].arg[1].articles # log[1].arg[2].articles
    /\ log[1].result[1][1] = log[1].result[1][2]

\* the table files the i-th call wrote: one per table with rows, named by
\* the second in which the call ran
WrittenTables(i) ==
    {TablePath(Tables[k], log[i].at) : k \in {n \in 1..3 : RowsOf(i, n) # <<>>}}

\* C11: a table file written by a successful save_editions call is still
\* there, with the same rows, after every later save_editions call.
C11_TablesNeverRewritten ==
    \A i \in Calls : \A j \in Calls :
        (i < j /\ SavedAll(i) /\ IsSave(j)) =>
            \A p \in WrittenTables(i) :
                /\ p \in DOMAIN Post(j)
                /\ Post(j)[p] = Post(i)[p]

(***************************************************************************)
(* Concurrent callers of _write_content_blob on one backend.  puts[c] is   *)
(* the call of caller c: where it stands, its argument, the created_at of  *)
(* the metadata it passed to write_bytes and the descriptor it returned.   *)
(* The existence check, the opening of a file (which truncates it) and the *)
(* writing of its content are separate steps.                              *)
(***************************************************************************)
Callers == 1..MaxCallers

PutPath(c) == ContentPath(Sha256Hex(BytesOf(puts[c].raw)))

\* the metadata dict caller c passes to write_bytes
PutMetadata(c) ==
    [content_hash |-> Sha256Hex(BytesOf(puts[c].raw)),
     content_size |-> RunLen(BytesOf(puts[c].raw)),
     created_at |-> puts[c].created_at[1]]

\* a file just opened for writing: it exists and is empty
OpenedFile(fs, path) == Put(fs, path, [kind |-> "empty", data |-> EmptyRun])

\* a writer that appends to what the file holds instead of writing the
\* opened file from its start
FileWriteAppends(fs, path, file) ==
    IF fs[path].kind = "bytes"
    THEN Put(fs, path, BytesFile(Run(file.data.unit, fs[path].data.n + file.data.n)))
    ELSE Put(fs, path, file)

\* the content written to the opened file, from its start
FileWrite(fs, path, file) == Put(fs, path, file)

At(c, pc) == c \in DOMAIN puts /\ puts[c].pc = pc

Goto(c, pc) == puts' = [puts EXCEPT ![c].pc = pc]

\* caller c enters _write_content_blob(raw)
BeginPut(c, raw) ==
    /\ c \notin DOMAIN puts
    /\ puts' = Put(puts, c, [pc |-> "exists", raw |-> raw,
                             created_at |-> None, result |-> None])
    /\ UNCHANGED <<files, now, enable_duckdb, log>>

\* if not self.backend.exists(path)
CheckExists(c) ==
    /\ At(c, "exists")
    /\ Goto(c, IF Exists(files, PutPath(c)) THEN "return" ELSE "write_bytes")
    /\ UNCHANGED <<files, now, enable_duckdb, log>>

\* write_bytes is called with created_at = now; full.write_bytes opens the file
OpenBlob(c) ==
    /\ At(c, "write_bytes")
    /\ files' = OpenedFile(files, PutPath(c))
    /\ puts' = [puts EXCEPT ![c].pc = "write", ![c].created_at = Some(now)]
    /\ UNCHANGED <<now, enable_duckdb, log>>

\* full.write_bytes writes the data
WriteBlob(c) ==
    /\ At(c, "write")
    /\ files' = FileWrite(files, PutPath(c), BytesFile(BytesOf(puts[c].raw)))
    /\ Goto(c, "meta")
    /\ UNCHANGED <<now, enable_duckdb, log>>

\* write_text opens the sidecar
OpenMeta(c) ==
    /\ At(c, "meta")
    /\ files' = OpenedFile(files, SidecarPath(PutPath(c)))
    /\ Goto(c, "write_meta")
    /\ UNCHANGED <<now, enable_duckdb, log>>

\* write_text writes json.dumps(metadata)
WriteMeta(c) ==
    /\ At(c, "write_meta")
    /\ files' = FileWrite(files, SidecarPath(PutPath(c)), JsonFile(PutMetadata(c)))
    /\ Goto(c, "return")
    /\ UNCHANGED <<now, enable_duckdb, log>>

\* return the descriptor
ReturnPut(c) ==
    /\ At(c, "return")
    /\ puts' = [puts EXCEPT ![c].pc = "done",
                            ![c].result = Some(BlobDescriptor(BytesOf(puts[c].raw)))]
    /\ UNCHANGED <<files, now, enable_duckdb, log>>

NextRace ==
    \/ \E c \in Callers, raw \in Payloads : BeginPut(c, raw)
    \/ \E c \in Callers : CheckExists(c)
    \/ \E c \in Callers : OpenBlob(c)
    \/ \E c \in Callers : WriteBlob(c)
    \/ \E c \in Callers : OpenMeta(c)
    \/ \E c \in Callers : WriteMeta(c)
    \/ \E c \in Callers : ReturnPut(c)
    \/ Tick

SpecRace == Init /\ [][NextRace]_vars

\* callers c and d put the same payload
SamePayload(c, d) == BytesOf(puts[c].raw) = BytesOf(puts[d].raw)

\* caller c wrote: it found the path absent
PutWrote(c) == puts[c].created_at # None

\* no call is in flight
Quiescent == \A c \in DOMAIN puts : puts[c].pc = "done"

\* the puts of a payload agree and leave its bytes at its path
PutsAgree ==
    \A c \in DOMAIN puts : \A d \in DOMAIN puts :
        (c # d /\ SamePayload(c, d) /\ At(c, "done") /\ At(d, "done")) =>
            /\ puts[c].result = puts[d].result
            /\ puts[c].result = Some(BlobDescriptor(BytesOf(puts[c].raw)))
            /\ Quiescent =>
                  /\ Exists(files, PutPath(c))
                  /\ files[PutPath(c)] = BytesFile(BytesOf(puts[c].raw))

\* C12 as stated: under every interleaving of concurrent puts of one
\* payload both callers return the same descriptor, the final bytes at the
\* path are the payload, and the race only repeats an identical write: the
\* callers that wrote passed write_bytes the same data and metadata.
C12_RaceRepeatsIdenticalWrite ==
    /\ PutsAgree
    /\ \A c \in DOMAIN puts : \A d \in DOMAIN puts :
          (SamePayload(c, d) /\ PutWrote(c) /\ PutWrote(d)) =>
              PutMetadata(c) = PutMetadata(d)

\* C12, amended: under every interleaving of concurrent puts of one payload
\* both callers return the same descriptor and the final bytes at the path
\* are the payload; the race repeats the write of the same bytes, and the
\* sidecar left is the metadata of one of the callers that wrote, with
\* that caller's created_at.
C12_ConcurrentPutsAgree ==
    /\ PutsAgree
    /\ \A c \in DOMAIN puts :
          (Quiescent /\ PutWrote(c)) =>
              /\ Exists(files, SidecarPath(PutPath(c)))
              /\ \E d \in DOMAIN puts :
                    /\ SamePayload(c, d) /\ PutWrote(d)
                    /\ files[SidecarPath(PutPath(c))] = JsonFile(PutMetadata(d))

\* both callers saw the path absent and wrote, a second apart
C12_Witness ==
    /\ DOMAIN puts = Callers
    /\ Quiescent
    /\ \A c \in Callers : SamePayload(c, 1) /\ PutWrote(c)
    /\ \E c \in Callers : puts[c].created_at # puts[1].created_at
    /\ files[PutPath(1)] = BytesFile(BytesOf(puts[1].raw))

\* the blob a row refers to is in store f, and the row's digest and size
\* are those of its bytes
BlobOf(f, row) ==
    /\ Exists(f, row.content_path[1])
    /\ f[row.content_path[1]].kind = "bytes"
    /\ row.content_hash = Some(Sha256Hex(f[row.content_path[1]].data))
    /\ row.content_path = Some(ContentPath(row.content_hash[1]))
    /\ row.content_size = RunLen(f[row.content_path[1]].data)

\* the rows the i-th call built for articles it sent to the blob store refer
\* to blobs of store f holding the bodies of those articles
BlobsHoldBodies(i, f) ==
    \A k \in 1..Len(log[i].result.articles_rows) :
        LET row == log[i].result.articles_rows[k]
        IN  row.content_path # None =>
                /\ BlobOf(f, row)
                /\ f[row.content_path[1]] =
                       BytesFile(BytesOf(BodiesOf(log[i].arg.editions)[k]))

\* the i-th call made all its blob store calls before its first table write
BlobsBeforeTables(i) ==
    \A m \in 1..Len(log[i].calls) : \A n \in 1..Len(log[i].calls) :
        (log[i].calls[m].fn = "write_parquet" /\ log[i].calls[n].fn # "write_parquet")
            => n < m

\* C13: after any sequence of calls, save_editions calls failing at a table
\* write included, every stored article row with a content_path refers to
\* a blob in the backend whose bytes are the article's body, whose digest
\* is the row's content_hash and whose length is its content_size; a call
\* writes its blobs before its first table, and no call changes or removes
\* a blob the store already held.
C13_RowsReferToStoredBlobs ==
    /\ \A row \in StoredArticleRows : row.content_path # None => BlobOf(files, row)
    /\ \A i \in Calls : IsSave(i) =>
          /\ BlobsBeforeTables(i)
          /\ \A j \in Calls : j >= i => BlobsHoldBodies(i, Post(j))
    /\ \A i \in Calls : \A p \in BlobFiles(log[i].pre) :
          p \in DOMAIN Post(i) /\ Post(i)[p] = log[i].pre[p]

\* a call stores a row with a blob; the next call, a second later, finds the
\* blob in the store, sends the same body to it and fails at the articles
\* table
C13_Witness ==
    /\ Len(log) = 2
    /\ SavedAll(1)
    /\ \E row \in StoredArticleRows : row.content_path # None
    /\ IsSave(2) /\ log[2].at > log[1].at
    /\ log[2].arg.failing = "articles"
    /\ log[2].raised = Some("OSError")
    /\ \E k \in 1..Len(log[2].result.articles_rows) :
          /\ log[2].result.articles_rows[k].content_path # None
          /\ log[2].result.articles_rows[k].content_path[1] \in BlobFiles(log[2].pre)

====
